---- MODULE Spec2Model ----
(***************************************************************************)
(* SoundWaveFactory (numpy_task_impl.py): synthesis of note waveforms on a *)
(* fixed timeline, quantization to int16, hand-over to the WAV encoder,    *)
(* and peak normalization of buffers.                                      *)
(*                                                                         *)
(* Number model.  Time points are exact fractions <<num, den>>.  A         *)
(* frequency is an integer count of 1/Milli Hz.  A continuous sample is an  *)
(* integer count of 1/Milli units; sin is a table of 12 phase steps per    *)
(* period, so a phase is cut down to the step below it.  A normalized      *)
(* sample x / m * A is the exact fraction (x*A)/m, or inf / nan where      *)
(* numpy's float division by zero yields them.                             *)
(***************************************************************************)
EXTENDS Integers, Sequences, FiniteSets, TLC

VARIABLES sampling_rate, duration_seconds, max_amplitude, timeline,
          disk, last, calls

config == <<sampling_rate, duration_seconds, max_amplitude, timeline>>
vars == <<sampling_rate, duration_seconds, max_amplitude, timeline, disk, last, calls>>

(* ------------------------------ bounds -------------------------------- *)
MaxRate == 3
MaxDuration == 2
MaxLen == 2
MaxWaves == 2

(* ----------------------------- constants ------------------------------ *)
MAX_AMPLITUDE == 8192

Milli == 10 ^ 3
Int16Min == -(2 ^ 15)
Int16Max == (2 ^ 15) - 1

\* NOTES: the rest note and two pitched notes of the table, in 1/Milli Hz
\* ('a4': 440.0000, 'f6': 1396.913).
NOTES == ("0" :> 0) @@ ("a4" :> 440000) @@ ("f6" :> 1396913)

WAVE_TYPES == {"sin", "square", "triangle"}

\* Python's None, and a str, as the value of the optional argument `name`.
None == [t |-> "NoneType", v |-> ""]
Str(s) == [t |-> "str", v |-> s]

(* ------------------------------ inputs -------------------------------- *)
Rates == 1..MaxRate
Durations == 1..MaxDuration
Amplitudes == {3, MAX_AMPLITUDE, 2 ^ 15}
NoteInputs == {"0", "f6", "z9"}
NameInputs == {None, Str("x")}
WaveTypeInputs == {"sin", "square", "triangle", "sawtooth"}
\* What a float -> int16 cast of an out-of-range value may give (undefined in C).
CastOutcomes == {"wrap", "saturate"}

(* ------------------------- outcomes of a call ------------------------- *)
\* trace: the steps the call went through, in order; encoder: the calls it made
\* to wavfile.write, each with the arguments handed over.
Return(v, tr, enc) ==
    [outcome |-> "return", value |-> v, exc |-> "", trace |-> tr, encoder |-> enc]
Raise(e, tr, enc) ==
    [outcome |-> "raise", value |-> <<>>, exc |-> e, trace |-> tr, encoder |-> enc]

(* ------------------------------ __init__ ------------------------------ *)
\* np.linspace(0, stop, num): num evenly spaced points, both ends included.
linspace(stop, num) ==
    [i \in 1..num |-> <<(i - 1) * stop, IF num > 1 THEN num - 1 ELSE 1>>]

(* --------------------------- get_normed_wave -------------------------- *)
SIN_MILLI == <<0, 500, 866, 1000, 866, 500, 0, -500, -866, -1000, -866, -500>>
\* (2 / pi) * arcsin(sin(x)) on the same 12 phase steps.
TRIANGLE_MILLI == <<0, 333, 667, 1000, 667, 333, 0, -333, -667, -1000, -667, -333>>
PhaseSteps == Len(SIN_MILLI)

sign(x) == IF x > 0 THEN 1 ELSE IF x < 0 THEN -1 ELSE 0

\* The phase step of 2 * pi * frequency * t, t = <<num, den>>.
PhaseStep(frequency, t) ==
    ((PhaseSteps * frequency * t[1]) \div (t[2] * Milli)) % PhaseSteps

sin(frequency, t) == SIN_MILLI[PhaseStep(frequency, t) + 1]

\* One continuous sample, in 1/Milli units.
Sample(frequency, wave_type, t) ==
    CASE wave_type = "sin" -> max_amplitude * sin(frequency, t)
      [] wave_type = "square" -> max_amplitude * sign(sin(frequency, t)) * Milli
      [] wave_type = "triangle" -> max_amplitude * TRIANGLE_MILLI[PhaseStep(frequency, t) + 1]

WaveTypeRejected_default_sin(wave_type) == FALSE

WaveTypeRejected(wave_type) == wave_type \notin WAVE_TYPES

\* The branch taken for a wave type that passed the check.
Shape(wave_type) == IF wave_type \in WAVE_TYPES THEN wave_type ELSE "sin"

WaveOver_drop_last(frequency, wave_type, tl) ==
    [i \in 1..(Len(tl) - 1) |-> Sample(frequency, Shape(wave_type), tl[i])]

WaveOver(frequency, wave_type, tl) ==
    [i \in 1..Len(tl) |-> Sample(frequency, Shape(wave_type), tl[i])]

get_normed_wave(frequency, wave_type) ==
    IF WaveTypeRejected(wave_type)
    THEN Raise("ValueError", <<"check wave_type">>, <<>>)
    ELSE Return(WaveOver(frequency, wave_type, timeline),
                <<"check wave_type", "compute">>, <<>>)

(* ----------------------------- create_wave ---------------------------- *)
\* NOTES.get(note): the frequency, or None.
NotesGet(note) ==
    IF note \in DOMAIN NOTES THEN [t |-> "float", v |-> NOTES[note]]
    ELSE [t |-> "NoneType", v |-> 0]

NoteUnknown_falsy(frequency) == frequency.t = "NoneType" \/ frequency.v = 0

\* frequency is None
NoteUnknown(frequency) == frequency.t = "NoneType"

\* Truncation toward zero of a sample given in 1/Milli units.
Truncate_round(x) ==
    IF x >= 0 THEN (2 * x + Milli) \div (2 * Milli)
    ELSE -((2 * (-x) + Milli) \div (2 * Milli))

Truncate(x) == IF x >= 0 THEN x \div Milli ELSE -((-x) \div Milli)

\* Narrowing of an integral value to int16; out of range it is undefined in C,
\* and cast says which of the outcomes the build gives.
Int16(v, cast) ==
    IF Int16Min <= v /\ v <= Int16Max THEN v
    ELSE IF cast = "wrap" THEN ((v - Int16Min) % (2 ^ 16)) + Int16Min
    ELSE IF v > Int16Max THEN Int16Max ELSE Int16Min

\* wave.astype(np.int16)
astype_int16(wave, cast) == [i \in 1..Len(wave) |-> Int16(Truncate(wave[i]), cast)]

FileName_note_only(note, name) == note \o "_wave.wav"

\* f"{note}_wave.wav" if name is None else f"{name}.wav"
FileName(note, name) ==
    IF name.t = "NoneType" THEN note \o "_wave.wav" ELSE name.v \o ".wav"

\* One call of wavfile.write, as the encoder sees it; ok: whether the write succeeds.
EncoderCall(file_name, rate, data, ok) ==
    [file_name |-> file_name, rate |-> rate, data |-> data, ok |-> ok]

AfterWrite_swallow(sound_wave, call, tr) == Return(sound_wave, tr, <<call>>)

\* Lines 98-101: the buffer is returned when the write succeeded; its failure is
\* caught and raised again as a RuntimeError.
AfterWrite(sound_wave, call, tr) ==
    IF call.ok THEN Return(sound_wave, tr, <<call>>)
    ELSE Raise("RuntimeError", tr, <<call>>)

create_wave(note, name, wave_type, write_ok, cast) ==
    LET frequency == NotesGet(note) IN
    IF NoteUnknown(frequency) THEN Raise("ValueError", <<"NOTES.get">>, <<>>)
    ELSE
      LET normed == get_normed_wave(frequency.v, wave_type) IN
      IF normed.outcome = "raise"
      THEN Raise("RuntimeError", <<"NOTES.get">> \o normed.trace, <<>>)
      ELSE
        LET sound_wave == astype_int16(normed.value, cast)
            file_name == FileName(note, name)
            call == EncoderCall(file_name, sampling_rate, sound_wave, write_ok)
        IN AfterWrite(sound_wave, call,
                      <<"NOTES.get">> \o normed.trace \o <<"astype", "wavfile.write">>)

\* The files the calls of an outcome created or overwrote.
Written(r) == {r.encoder[i].file_name : i \in {j \in 1..Len(r.encoder) : r.encoder[j].ok}}

(* -------------------------- buffers and lists ------------------------- *)
ndarray(data) == [type |-> "ndarray", data |-> data]
list(data) == [type |-> "list", data |-> data]

RECURSIVE SeqMax(_)
SeqMax(s) ==
    IF Len(s) = 1 THEN s[1]
    ELSE LET m == SeqMax(Tail(s)) IN IF s[1] > m THEN s[1] ELSE m

RECURSIVE SeqMin(_)
SeqMin(s) ==
    IF Len(s) = 1 THEN s[1]
    ELSE LET m == SeqMin(Tail(s)) IN IF s[1] < m THEN s[1] ELSE m

(* -------------------------- print_wave_details ------------------------ *)
print_wave_details(wave) ==
    IF wave.type # "ndarray" THEN Raise("ValueError", <<"check type">>, <<>>)
    ELSE IF Len(wave.data) = 0 THEN Raise("ValueError", <<"check type", "np.max">>, <<>>)
    ELSE Return(<<Len(wave.data), SeqMax(wave.data), SeqMin(wave.data)>>,
                <<"check type", "print">>, <<>>)

(* ------------------------ normalize_sound_waves ----------------------- *)
\* np.abs on int16: the magnitude, which for -32768 does not fit and stays -32768.
abs_int16(x) == IF x = Int16Min THEN Int16Min ELSE IF x < 0 THEN -x ELSE x

\* x / m * amplitude in float64: division by zero gives inf or nan, with a warning.
Scaled(x, m, amplitude) ==
    IF m = 0
    THEN IF x = 0 THEN [k |-> "nan", n |-> 0, d |-> 0]
         ELSE [k |-> "inf", n |-> sign(x), d |-> 0]
    ELSE [k |-> "finite", n |-> x * amplitude * sign(m), d |-> m * sign(m)]

\* wave / max(np.abs(wave)) * self.max_amplitude, for a non-empty wave.
Normalized(data) ==
    LET m == SeqMax([i \in 1..Len(data) |-> abs_int16(data[i])])
    IN [i \in 1..Len(data) |-> Scaled(data[i], m, max_amplitude)]

AllNdarray(waves) == \A i \in 1..Len(waves) : waves[i].type = "ndarray"

\* max() of an empty sequence raises.
ScaleFails(wave) == Len(wave.data) = 0

Steps(n, step) == [i \in 1..n |-> step]

\* The list comprehension of line 145: the buffers in order, up to the first that raises.
ScaleAll(waves, tr) ==
    LET failing == {i \in 1..Len(waves) : ScaleFails(waves[i])} IN
    IF failing = {}
    THEN Return([i \in 1..Len(waves) |-> Normalized(waves[i].data)],
                tr \o Steps(Len(waves), "scale"), <<>>)
    ELSE Raise("RuntimeError",
               tr \o Steps((CHOOSE i \in failing : \A j \in failing : i <= j) - 1, "scale"),
               <<>>)

\* The type check made element by element, inside the loop.
normalize_sound_waves_lazy(waves) ==
    LET bad == {i \in 1..Len(waves) : waves[i].type # "ndarray"}
        first == CHOOSE i \in bad : \A j \in bad : i <= j
        before == IF bad = {} THEN waves ELSE SubSeq(waves, 1, first - 1)
        r == ScaleAll(before, <<"check types">>)
    IN IF bad = {} \/ r.outcome = "raise" THEN r
       ELSE Raise("ValueError", r.trace, <<>>)

normalize_sound_waves(waves) ==
    IF ~AllNdarray(waves) THEN Raise("ValueError", <<"check types">>, <<>>)
    ELSE ScaleAll(waves, <<"check types">>)

(* ------------------------- the factory in use ------------------------- *)
Call(op, args, r) == [op |-> op, args |-> args] @@ r

Idle == [pc |-> "idle", note |-> "", name |-> None, wave_type |-> "",
         sound_wave |-> <<>>, file_name |-> "", exc |-> ""]
Threads == {1, 2}

\* SoundWaveFactory(sampling_rate, duration_seconds, max_amplitude), nothing on disk.
Init ==
    /\ sampling_rate \in Rates
    /\ duration_seconds \in Durations
    /\ max_amplitude \in Amplitudes
    /\ timeline = linspace(duration_seconds, sampling_rate * duration_seconds)
    /\ disk = {}
    /\ last = Call("__init__", <<>>, Return(<<>>, <<>>, <<>>))
    /\ calls = [t \in Threads |-> Idle]

GetNormedWave ==
    \E note \in DOMAIN NOTES, wave_type \in WaveTypeInputs :
        /\ last' = Call("get_normed_wave",
                        [frequency |-> NOTES[note], wave_type |-> wave_type],
                        get_normed_wave(NOTES[note], wave_type))
        /\ UNCHANGED <<config, disk, calls>>

\* A sample leaves the int16 range only when max_amplitude does.
Casts == IF max_amplitude > Int16Max THEN CastOutcomes ELSE {"wrap"}

CreateWave ==
    \E note \in NoteInputs, name \in NameInputs, wave_type \in WaveTypeInputs,
       write_ok \in BOOLEAN, cast \in Casts :
        LET r == create_wave(note, name, wave_type, write_ok, cast) IN
        /\ last' = Call("create_wave",
                        [note |-> note, name |-> name, wave_type |-> wave_type,
                         write_ok |-> write_ok], r)
        /\ disk' = disk \cup Written(r)
        /\ UNCHANGED <<config, calls>>

\* The buffer the caller holds: what create_wave returned last; as an ndarray,
\* and copied into a plain list.
Held ==
    IF last.op = "create_wave" /\ last.outcome = "return"
    THEN {ndarray(last.value), list(last.value)}
    ELSE {}

PrintWaveDetails ==
    \E wave \in Held :
        /\ last' = Call("print_wave_details", [wave |-> wave], print_wave_details(wave))
        /\ UNCHANGED <<config, disk, calls>>

NormalizeHeld ==
    \E wave \in Held, n \in 1..MaxWaves :
        LET waves == Steps(n, wave) IN
        /\ last' = Call("normalize_sound_waves", [waves |-> waves],
                        normalize_sound_waves(waves))
        /\ UNCHANGED <<config, disk, calls>>

Next == GetNormedWave \/ CreateWave \/ PrintWaveDetails \/ NormalizeHeld

Spec == Init /\ [][Next]_vars

(* ------------------- attributes assigned by the caller ---------------- *)
\* factory.sampling_rate = value
SetSamplingRate ==
    \E value \in Rates :
        /\ sampling_rate' = value
        /\ last' = Call("setattr", [attr |-> "sampling_rate", value |-> value],
                        Return(<<>>, <<>>, <<>>))
        /\ UNCHANGED <<duration_seconds, max_amplitude, timeline, disk, calls>>

\* factory.duration_seconds = value
SetDurationSeconds ==
    \E value \in Durations :
        /\ duration_seconds' = value
        /\ last' = Call("setattr", [attr |-> "duration_seconds", value |-> value],
                        Return(<<>>, <<>>, <<>>))
        /\ UNCHANGED <<sampling_rate, max_amplitude, timeline, disk, calls>>

NextAssign == Next \/ SetSamplingRate \/ SetDurationSeconds

SpecAssign == Init /\ [][NextAssign]_vars

(* ---------------- normalize_sound_waves on given buffers -------------- *)
Samples == {Int16Min, 0, 2}

RECURSIVE SeqsUpTo(_, _)
SeqsUpTo(S, n) ==
    IF n = 0 THEN {<<>>}
    ELSE LET shorter == SeqsUpTo(S, n - 1)
         IN shorter \cup {Append(s, x) : s \in {q \in shorter : Len(q) = n - 1}, x \in S}

Buffers == {ndarray(data) : data \in SeqsUpTo(Samples, MaxLen)}
Elements == Buffers \cup {list(<<0, 2>>)}
WaveLists == SeqsUpTo(Elements, MaxWaves) \ {<<>>}

NormalizeSoundWaves ==
    \E waves \in WaveLists :
        /\ last' = Call("normalize_sound_waves", [waves |-> waves],
                        normalize_sound_waves(waves))
        /\ UNCHANGED <<config, disk, calls>>

\* Normalization reads max_amplitude alone.
InitNormalize == Init /\ sampling_rate = 1 /\ duration_seconds = 1

\* One call on the fresh factory: the function is pure, so every call is this one.
NextNormalize == last.op = "__init__" /\ NormalizeSoundWaves

SpecNormalize == InitNormalize /\ [][NextNormalize]_vars

(* ------------------- two create_wave calls at once -------------------- *)
\* Each thread runs create_wave once; pc is the line it is about to execute, and
\* "writing" is inside wavfile.write, between the file's open and its close.
ConcurrentNotes == {"a4", "f6", "z9"}
ConcurrentNames == {None, Str("x"), Str("a4_wave")}
ConcurrentWaveTypes == {"sin", "square", "sawtooth"}

InitConcurrent ==
    Init /\ sampling_rate = 2 /\ duration_seconds = 1 /\ max_amplitude = MAX_AMPLITUDE

Enter(t) ==
    /\ calls[t].pc = "idle"
    /\ \E note \in ConcurrentNotes, name \in ConcurrentNames,
          wave_type \in ConcurrentWaveTypes :
          calls' = [calls EXCEPT ![t] = [@ EXCEPT !.pc = "line 91", !.note = note,
                                                  !.name = name, !.wave_type = wave_type]]
    /\ UNCHANGED <<config, disk, last>>

Lookup(t) ==
    /\ calls[t].pc = "line 91"
    /\ calls' = [calls EXCEPT ![t] =
                   IF NoteUnknown(NotesGet(@.note))
                   THEN [@ EXCEPT !.pc = "raised", !.exc = "ValueError"]
                   ELSE [@ EXCEPT !.pc = "line 96"]]
    /\ UNCHANGED <<config, disk, last>>

Quantize(t) ==
    /\ calls[t].pc = "line 96"
    /\ LET c == calls[t]
           normed == get_normed_wave(NotesGet(c.note).v, c.wave_type)
       IN calls' = [calls EXCEPT ![t] =
                      IF normed.outcome = "raise"
                      THEN [@ EXCEPT !.pc = "raised", !.exc = "RuntimeError"]
                      ELSE [@ EXCEPT !.pc = "line 98",
                                     !.sound_wave = astype_int16(normed.value, "wrap"),
                                     !.file_name = FileName(c.note, c.name)]]
    /\ UNCHANGED <<config, disk, last>>

WriteOpen(t) ==
    /\ calls[t].pc = "line 98"
    /\ \E ok \in BOOLEAN :
          IF ok
          THEN /\ calls' = [calls EXCEPT ![t].pc = "writing"]
               /\ disk' = disk \cup {calls[t].file_name}
          ELSE /\ calls' = [calls EXCEPT ![t] =
                              [@ EXCEPT !.pc = "raised", !.exc = "RuntimeError"]]
               /\ disk' = disk
    /\ UNCHANGED <<config, last>>

WriteClose(t) ==
    /\ calls[t].pc = "writing"
    /\ calls' = [calls EXCEPT ![t].pc = "line 99"]
    /\ UNCHANGED <<config, disk, last>>

ReturnWave(t) ==
    /\ calls[t].pc = "line 99"
    /\ calls' = [calls EXCEPT ![t].pc = "returned"]
    /\ UNCHANGED <<config, disk, last>>

NextConcurrent ==
    \E t \in Threads :
        Enter(t) \/ Lookup(t) \/ Quantize(t) \/ WriteOpen(t) \/ WriteClose(t) \/ ReturnWave(t)

SpecConcurrent == InitConcurrent /\ [][NextConcurrent]_vars

(* ======================= properties of the code ======================= *)
Abs(x) == IF x < 0 THEN -x ELSE x
Given == last.args

\* The list handed to normalize_sound_waves holds only int16 buffers.
OnlyBuffers == \A i \in 1..Len(Given.waves) : Given.waves[i].type = "ndarray"
NonZero(w) == Len(w.data) > 0 /\ \E i \in 1..Len(w.data) : w.data[i] # 0
AllZero(w) == Len(w.data) > 0 /\ \A i \in 1..Len(w.data) : w.data[i] = 0

\* The largest magnitude of a normalized buffer is exactly amplitude.
PeakIs(buffer, amplitude) ==
    /\ \A i \in 1..Len(buffer) :
          buffer[i].k = "finite" /\ Abs(buffer[i].n) <= amplitude * buffer[i].d
    /\ \E i \in 1..Len(buffer) : Abs(buffer[i].n) = amplitude * buffer[i].d

\* C1: normalize_sound_waves, given non-empty int16 buffers each with a nonzero
\* sample (-32768 included), returns for each a buffer whose maximum absolute
\* value equals max_amplitude.
C1_PeakEqualsMaxAmplitude ==
    (/\ last.op = "normalize_sound_waves"
     /\ OnlyBuffers
     /\ \A i \in 1..Len(Given.waves) : NonZero(Given.waves[i]))
    => /\ last.outcome = "return"
       /\ Len(last.value) = Len(Given.waves)
       /\ \A i \in 1..Len(last.value) : PeakIs(last.value[i], max_amplitude)

\* C2: normalize_sound_waves on a list of buffers that contains an all-zero buffer
\* raises the normalization error (RuntimeError) and returns no list.
C2_AllZeroBufferRaises ==
    (/\ last.op = "normalize_sound_waves"
     /\ OnlyBuffers
     /\ \E i \in 1..Len(Given.waves) : AllZero(Given.waves[i]))
    => last.outcome = "raise" /\ last.exc = "RuntimeError"

\* C5: when any element of the list is not a buffer, normalize_sound_waves raises
\* the type error (ValueError) having scaled no buffer and returns nothing, also
\* when an earlier element is an all-zero or an empty buffer.
C5_TypeCheckBeforeAnyScaling ==
    (/\ last.op = "normalize_sound_waves"
     /\ \E i \in 1..Len(Given.waves) : Given.waves[i].type # "ndarray")
    => /\ last.outcome = "raise"
       /\ last.exc = "ValueError"
       /\ last.trace = <<"check types">>
       /\ last.value = <<>>

C5_Witness ==
    /\ last.op = "normalize_sound_waves"
    /\ Len(Given.waves) = 2
    /\ Given.waves[1].type = "ndarray"
    /\ AllZero(Given.waves[1]) \/ Len(Given.waves[1].data) = 0
    /\ Given.waves[2].type = "list"
    /\ last.exc = "ValueError"

ValidCreate ==
    /\ last.op = "create_wave"
    /\ Given.note \in DOMAIN NOTES
    /\ Given.wave_type \in WAVE_TYPES

\* C3 (as claimed): when the encoder's write fails for a valid note and wave type,
\* create_wave still returns the quantized buffer.
C3_ReturnsBufferWhenWriteFails ==
    (ValidCreate /\ ~Given.write_ok)
    => last.outcome = "return" /\ last.value = last.encoder[1].data

\* C3 (amended): for a valid note and wave type the encoder is called once with
\* the quantized buffer; when its write fails create_wave raises RuntimeError and
\* returns no buffer, and when it succeeds create_wave returns that buffer.
C3_WriteFailureIsRaised ==
    ValidCreate
    => /\ Len(last.encoder) = 1
       /\ last.encoder[1].ok = Given.write_ok
       /\ ~Given.write_ok =>
             last.outcome = "raise" /\ last.exc = "RuntimeError" /\ last.value = <<>>
       /\ Given.write_ok =>
             last.outcome = "return" /\ last.value = last.encoder[1].data

C3_Witness ==
    /\ ValidCreate
    /\ ~Given.write_ok
    /\ Given.note = "f6"
    /\ last.outcome = "raise"
    /\ Len(last.encoder[1].data) > 1

\* C4: create_wave with a note that is no key of NOTES raises ValueError for every
\* wave type and name, before any synthesis and without calling the encoder or
\* touching the disk; the rest note "0" is never reported as unknown.
C4_UnknownNoteRejectedFirst ==
    [][last'.op = "create_wave" =>
         /\ last'.args.note \notin DOMAIN NOTES =>
               /\ last'.outcome = "raise"
               /\ last'.exc = "ValueError"
               /\ last'.trace = <<"NOTES.get">>
               /\ last'.encoder = <<>>
               /\ disk' = disk
         /\ last'.args.note = "0" => ~(last'.outcome = "raise" /\ last'.exc = "ValueError")
      ]_vars

C4_Witness ==
    /\ last.op = "create_wave"
    /\ Given.note = "z9"
    /\ Given.wave_type = "sawtooth"
    /\ Given.name = Str("x")
    /\ last.exc = "ValueError"
    /\ "0_wave.wav" \in disk

\* C6: for every wave type of {sin, square, triangle} and every frequency of the
\* note table, 0 included, get_normed_wave returns a buffer as long as the
\* timeline, which has sampling_rate * duration_seconds points.
C6_WaveAsLongAsTimeline ==
    (last.op = "get_normed_wave" /\ Given.wave_type \in WAVE_TYPES)
    => /\ last.outcome = "return"
       /\ Len(last.value) = Len(timeline)
       /\ Len(timeline) = sampling_rate * duration_seconds

C6_Witness ==
    /\ last.op = "get_normed_wave"
    /\ Given.frequency = 0
    /\ Given.wave_type = "triangle"
    /\ last.outcome = "return"
    /\ Len(last.value) = MaxRate * MaxDuration

\* C7: a wave type outside {sin, square, triangle} is rejected before anything is
\* computed or written: get_normed_wave raises ValueError for every frequency, and
\* create_wave with a valid note fails with no synthesis, no call of the encoder
\* and the disk as it was.
C7_InvalidWaveTypeRejectedFirst ==
    [][/\ (last'.op = "get_normed_wave" /\ last'.args.wave_type \notin WAVE_TYPES) =>
             /\ last'.outcome = "raise"
             /\ last'.exc = "ValueError"
             /\ last'.trace = <<"check wave_type">>
             /\ disk' = disk
       /\ (/\ last'.op = "create_wave"
           /\ last'.args.note \in DOMAIN NOTES
           /\ last'.args.wave_type \notin WAVE_TYPES) =>
             /\ last'.outcome = "raise"
             /\ last'.trace = <<"NOTES.get", "check wave_type">>
             /\ last'.encoder = <<>>
             /\ disk' = disk
      ]_vars

C7_Witness ==
    /\ last.op = "create_wave"
    /\ Given.note = "f6"
    /\ Given.wave_type = "sawtooth"
    /\ last.outcome = "raise"
    /\ last.exc = "RuntimeError"
    /\ disk = {}

\* q is x (in 1/Milli units) with its fraction dropped, toward zero.
IsTruncationOf(q, x) ==
    /\ Abs(q) * Milli <= Abs(x)
    /\ Abs(x) < (Abs(q) + 1) * Milli
    /\ q = 0 \/ sign(q) = sign(x)

\* C10: for a valid note and wave type and 0 < max_amplitude < 32768, each sample
\* create_wave returns is the continuous sample truncated toward zero, lies in
\* -max_amplitude..max_amplitude, and the returned buffer is the one handed to the
\* encoder, with the factory's sampling rate.
C10_SamplesTruncatedTowardZero ==
    (/\ last.op = "create_wave"
     /\ last.outcome = "return"
     /\ 0 < max_amplitude
     /\ max_amplitude < 2 ^ 15)
    => LET continuous == WaveOver(NOTES[Given.note], Given.wave_type, timeline) IN
       /\ Len(last.value) = Len(continuous)
       /\ \A i \in 1..Len(continuous) :
             /\ IsTruncationOf(last.value[i], continuous[i])
             /\ Abs(last.value[i]) <= max_amplitude
       /\ Len(last.encoder) = 1
       /\ last.encoder[1].data = last.value
       /\ last.encoder[1].rate = sampling_rate

\* A negative sample whose truncation is neither its floor nor its nearest integer.
C10_Witness ==
    /\ last.op = "create_wave"
    /\ last.outcome = "return"
    /\ max_amplitude < 2 ^ 15
    /\ \E i \in 1..Len(last.value) :
          LET x == WaveOver(NOTES[Given.note], Given.wave_type, timeline)[i] IN
          /\ x < 0
          /\ last.value[i] # x \div Milli
          /\ last.value[i] # Truncate_round(x)

\* C8: in every reachable state, also after sampling_rate or duration_seconds is
\* assigned, the timeline has exactly sampling_rate * duration_seconds points.
C8_TimelineFollowsConfiguration ==
    Len(timeline) = sampling_rate * duration_seconds

(* -------------------------- concurrent calls -------------------------- *)
Writing(t) == calls[t].pc = "writing"
Arguments(t) == <<calls[t].note, calls[t].name, calls[t].wave_type>>

\* C9 (as claimed): two concurrent create_wave calls that differ in their
\* (note, name, wave_type) arguments are never writing the same file at once.
C9_DistinctCallsDistinctFiles ==
    \A t1, t2 \in Threads :
        (t1 # t2 /\ Writing(t1) /\ Writing(t2) /\ Arguments(t1) # Arguments(t2))
        => calls[t1].file_name # calls[t2].file_name

\* The arguments of two calls name one file: the same note with no name, the same
\* name, or a name that spells the other call's "<note>_wave".
SameTarget(a, b) ==
    \/ a.name = None /\ b.name = None /\ a.note = b.note
    \/ a.name # None /\ b.name # None /\ a.name.v = b.name.v
    \/ a.name = None /\ b.name # None /\ b.name.v = a.note \o "_wave"
    \/ a.name # None /\ b.name = None /\ a.name.v = b.note \o "_wave"

\* C9 (amended): two concurrent create_wave calls are writing the same file at
\* once exactly when their (note, name) arguments name one file, whatever their
\* wave types; calls whose (note, name) name different files never share a file.
C9_SharedFileOnlyForSameTarget ==
    \A t1, t2 \in Threads :
        (t1 # t2 /\ Writing(t1) /\ Writing(t2))
        => (calls[t1].file_name = calls[t2].file_name <=> SameTarget(calls[t1], calls[t2]))

\* Two writers on one file, from calls that differ in wave type alone.
C9_Witness ==
    /\ Writing(1)
    /\ Writing(2)
    /\ calls[1].file_name = calls[2].file_name
    /\ calls[1].note = calls[2].note
    /\ calls[1].name = None
    /\ calls[2].name = None
    /\ calls[1].wave_type # calls[2].wave_type

====
